---- MODULE Spec2Model ----
(***************************************************************************)
(* Model of src/index.js: the catalog ingestion pipeline                   *)
(* (GET /fetch-data/:id), the Identity Resolver (productExists) and the    *)
(* product CRUD endpoints, over a store with a Category and a Product      *)
(* table.  Every await of the source is one step: the store statement it   *)
(* waits for takes effect atomically, and the code up to the next await    *)
(* runs with it.                                                           *)
(***************************************************************************)
EXTENDS Integers, Sequences, FiniteSets, TLC

\* ---- bounds of the model ----
\* category blocks of a document
MaxBlocks == 2
\* products of a document, over all its blocks
MaxProds == 2
\* CRUD requests served
MaxCrud == 1
\* products of a document where calls overlap or CRUD requests are served
MaxProdsConc == 1

\* ---- value domains ----
Calls == {1, 2}
CatIds == {1, 7}
Titles == {"Red Shirt", "red shirt"}
Undefined == [undefined |-> TRUE]

\* An upstream product of the remote document (spec 6, "remote document shape").
UpstreamProduct(t, pr) ==
    [title |-> t, slug |-> "red-shirt", lang |-> "en", auth_id |-> 9,
     status |-> "active", type |-> "simple", count |-> 10,
     created_at |-> "2024-01-01T00:00:00Z", updated_at |-> "2024-01-02T00:00:00Z",
     price |-> pr, preview |-> [content |-> "desc"], stock |-> [stock |-> 3]]

UpstreamProducts ==
    {UpstreamProduct(t, [price |-> 20]) : t \in Titles}
        \cup {UpstreamProduct("Red Shirt", Undefined)}

\* The upstream categories: "Shirts", the same category renamed under another
\* owner, and "Hats".
Headers == {[id |-> 1, name |-> "Shirts", user_id |-> 9],
            [id |-> 1, name |-> "Tops", user_id |-> 8],
            [id |-> 7, name |-> "Hats", user_id |-> 8]}

ProdSeqs == UNION {[1..k -> UpstreamProducts] : k \in 0..MaxProds}

Blocks == {[id |-> h.id, name |-> h.name, user_id |-> h.user_id, products |-> ps] :
              h \in Headers, ps \in ProdSeqs}

\* The documents of at most k category blocks holding at most n products in all.
RECURSIVE DocsOf(_, _)
DocsOf(k, n) ==
    IF k = 0 THEN {<<>>}
    ELSE {<<>>} \cup
         UNION {{<<b>> \o d : d \in DocsOf(k - 1, n - Len(b.products))} :
                  b \in {x \in Blocks : Len(x.products) <= n}}

\* The remote documents.
Docs == DocsOf(MaxBlocks, MaxProds)

\* ---- the store as an earlier ingestion of the end-to-end document left it ----
SeedCategory == {[id |-> 1, name |-> "Shirts", user_id |-> 9]}
SeedProduct ==
    {[id |-> 1, title |-> "Red Shirt", slug |-> "red-shirt", lang |-> "en", auth_id |-> 9,
      status |-> "active", type |-> "simple", count |-> 10,
      created_at |-> 1704067200, updated_at |-> 1704153600,
      category_id |-> 1, price |-> 20, preview |-> "desc", stock |-> 3]}

VARIABLES
    remote,       \* the document the vendor endpoint serves
    seeded,       \* whether the store started with rows of an earlier run
    overlap,      \* whether the clients send a request while another is served
    category,     \* Category table: set of rows
    product,      \* Product table: set of rows
    nextId,       \* next autogenerated Product id
    pc,           \* per call: position in the handler
    categories,   \* per call: response.data.products
    ci,           \* per call: index of the current category block
    pi,           \* per call: index of the current product of the block
    categoryData, \* per call: the row returned by the upsert
    exists,       \* per call: result of productExists
    error,        \* per call: the caught error ("none" while none)
    res,          \* per call: the responses sent (status codes)
    trace,        \* per call: the statements it issued, in order, with their outcome
    alone,        \* per call: no other request ran while it was active
    snap,         \* per call: the Product table when it responded
    crudLog       \* the CRUD requests served so far and their status

vars == <<remote, seeded, overlap, category, product, nextId, pc, categories, ci, pi,
          categoryData, exists, error, res, trace, alone, snap, crudLog>>

store == <<category, product, nextId>>
local == <<categories, ci, pi, categoryData, exists, error, res, trace>>

\* an entry of a call's trace: statement, position in the document, outcome,
\* and the id of the row a create inserted
Entry(op, i, j, r, id) == [op |-> op, i |-> i, j |-> j, r |-> r, id |-> id]
Log(p, e) == trace' = [trace EXCEPT ![p] = Append(trace[p], e)]

\* ---- pure helpers ----

\* new Date(s) (lines 64-65, 242-243): the timestamp of an ISO string, in
\* seconds since the epoch; any other string gives an invalid date.
InvalidDate == -1
ParseDate(s) ==
    CASE s = "2024-01-01T00:00:00Z" -> 1704067200
      [] s = "2024-01-02T00:00:00Z" -> 1704153600
      [] OTHER -> InvalidDate

\* mutant: the lookup filters on the slug column instead of the title
productExistsWrongColumn(rows, title, categoryId) ==
    \E r \in rows : r.slug = title /\ r.category_id = categoryId

\* a title in lower case
Lower(t) ==
    CASE t = "Red Shirt" -> "red shirt"
      [] OTHER -> t

\* mutant: the lookup compares the titles in lower case
productExistsNormalized(rows, title, categoryId) ==
    \E r \in rows : Lower(r.title) = Lower(title) /\ r.category_id = categoryId

\* prisma.product.findFirst({where: {title, category_id}}) !== null
productExists(rows, title, categoryId) ==
    \E r \in rows : r.title = title /\ r.category_id = categoryId

\* mutant: an update in place of the upsert (no row is created)
UpsertUpdateOnly(rows, block) ==
    {IF r.id = block.id
     THEN [r EXCEPT !.name = block.name, !.user_id = block.user_id]
     ELSE r : r \in rows}

\* mutant: the table is synchronised to the block (other rows are dropped)
UpsertReplaceAll(rows, block) ==
    {[id |-> block.id, name |-> block.name, user_id |-> block.user_id]}

\* mutant: an upsert whose update branch is empty (create if absent only)
UpsertNoOverwrite(rows, block) ==
    IF \E r \in rows : r.id = block.id
    THEN rows
    ELSE rows \cup {[id |-> block.id, name |-> block.name, user_id |-> block.user_id]}

\* mutant: a create in place of the upsert (a row is added every time)
UpsertInsertOnly(rows, block) ==
    rows \cup {[id |-> block.id, name |-> block.name, user_id |-> block.user_id]}

\* mutant: an upsert whose update branch writes the name only
UpsertNameOnly(rows, block) ==
    IF \E r \in rows : r.id = block.id
    THEN {IF r.id = block.id THEN [r EXCEPT !.name = block.name] ELSE r : r \in rows}
    ELSE rows \cup {[id |-> block.id, name |-> block.name, user_id |-> block.user_id]}

\* prisma.category.upsert: the table after the statement
Upsert(rows, block) ==
    IF \E r \in rows : r.id = block.id
    THEN {IF r.id = block.id
          THEN [r EXCEPT !.name = block.name, !.user_id = block.user_id]
          ELSE r : r \in rows}
    ELSE rows \cup {[id |-> block.id, name |-> block.name, user_id |-> block.user_id]}

\* the row prisma.category.upsert returns
UpsertResult(rows, block) ==
    [id |-> block.id, name |-> block.name, user_id |-> block.user_id]

\* Building the create arguments throws (TypeError on a missing nested
\* object) or the store rejects an invalid date.
CreateThrows(p) ==
    \/ p.price = Undefined
    \/ p.preview = Undefined
    \/ p.stock = Undefined
    \/ ParseDate(p.created_at) = InvalidDate
    \/ ParseDate(p.updated_at) = InvalidDate

\* mutant: the nested price and stock land in each other's column
IngestRowSwapped(id, p, cat) ==
    [id |-> id, title |-> p.title, slug |-> p.slug, lang |-> p.lang,
     auth_id |-> p.auth_id, status |-> p.status, type |-> p.type, count |-> p.count,
     created_at |-> ParseDate(p.created_at), updated_at |-> ParseDate(p.updated_at),
     category_id |-> cat.id, price |-> p.stock.stock, preview |-> p.preview.content,
     stock |-> p.price.price]

\* mutant: the title is stored in lower case (the check still uses it as is)
IngestRowLowerTitle(id, p, cat) ==
    [id |-> id, title |-> Lower(p.title), slug |-> p.slug, lang |-> p.lang,
     auth_id |-> p.auth_id, status |-> p.status, type |-> p.type, count |-> p.count,
     created_at |-> ParseDate(p.created_at), updated_at |-> ParseDate(p.updated_at),
     category_id |-> cat.id, price |-> p.price.price, preview |-> p.preview.content,
     stock |-> p.stock.stock]

\* the data of prisma.product.create in the ingestion loop
IngestRow(id, p, cat) ==
    [id |-> id, title |-> p.title, slug |-> p.slug, lang |-> p.lang,
     auth_id |-> p.auth_id, status |-> p.status, type |-> p.type, count |-> p.count,
     created_at |-> ParseDate(p.created_at), updated_at |-> ParseDate(p.updated_at),
     category_id |-> cat.id, price |-> p.price.price, preview |-> p.preview.content,
     stock |-> p.stock.stock]

\* Product.category_id references Category.id
ForeignKeyOk(cats, categoryId) == \E c \in cats : c.id = categoryId

Active(p) == pc[p] \notin {"idle", "done"}

\* ---- GET /fetch-data/:id ----

\* mutant: after the last product of a block the loop goes on with the
\* products of the next block, without the upsert of that block
NextPcNoUpsert(d, i, j) ==
    IF j < Len(d[i].products) THEN "check"
    ELSE IF i < Len(d)
         THEN (IF Len(d[i + 1].products) > 0 THEN "check" ELSE "upsert")
         ELSE "done"

\* where the loops go after the product at (i, j) of document d
NextPc(d, i, j) ==
    IF j < Len(d[i].products) THEN "check"
    ELSE IF i < Len(d) THEN "upsert" ELSE "done"
NextCi(d, i, j) == IF j < Len(d[i].products) THEN i ELSE i + 1
NextPi(d, i, j) == IF j < Len(d[i].products) THEN j + 1 ELSE 1

\* res.send('Data berhasil diambil dan disimpan') once both loops are over
Send(p, npc) ==
    IF npc = "done"
    THEN /\ res' = [res EXCEPT ![p] = Append(res[p], 200)]
         /\ snap' = [snap EXCEPT ![p] = product']
    ELSE UNCHANGED <<res, snap>>

\* mutant: the handler undoes the rows the call inserted before it answers
CatchRollback(p, e) ==
    /\ error' = [error EXCEPT ![p] = e]
    /\ res' = [res EXCEPT ![p] = Append(res[p], 500)]
    /\ product' = {r \in product :
                     ~\E k \in 1..Len(trace[p]) :
                         trace[p][k].op = "create" /\ trace[p][k].id = r.id}
    /\ snap' = [snap EXCEPT ![p] = product']
    /\ pc' = [pc EXCEPT ![p] = "done"]
    /\ UNCHANGED <<category, nextId, categories, ci, pi, categoryData, exists>>

\* mutant: the handler answers without setting the status
CatchSends200(p, e) ==
    /\ error' = [error EXCEPT ![p] = e]
    /\ res' = [res EXCEPT ![p] = Append(res[p], 200)]
    /\ snap' = [snap EXCEPT ![p] = product]
    /\ pc' = [pc EXCEPT ![p] = "done"]
    /\ UNCHANGED <<store, categories, ci, pi, categoryData, exists>>

\* catch (error): res.status(500).send('Gagal mengambil dan menyimpan data')
Catch(p, e) ==
    /\ error' = [error EXCEPT ![p] = e]
    /\ res' = [res EXCEPT ![p] = Append(res[p], 500)]
    /\ snap' = [snap EXCEPT ![p] = product]
    /\ pc' = [pc EXCEPT ![p] = "done"]
    /\ UNCHANGED <<store, categories, ci, pi, categoryData, exists>>

\* a request starts; calls are numbered in the order they start
Arrive(p) ==
    /\ pc[p] = "idle"
    /\ \A q \in Calls : q < p => pc[q] # "idle"
    /\ overlap \/ \A q \in Calls : ~Active(q)
    /\ alone' = [q \in Calls |->
                   IF q = p THEN \A o \in Calls : ~Active(o) ELSE alone[q] /\ ~Active(q)]

\* axios.get resolves with the document; the outer loop starts
FetchOk(p) ==
    /\ Arrive(p)
    /\ categories' = [categories EXCEPT ![p] = remote]
    /\ ci' = [ci EXCEPT ![p] = 1]
    /\ LET npc == IF Len(remote) = 0 THEN "done" ELSE "upsert"
       IN /\ pc' = [pc EXCEPT ![p] = npc]
          /\ UNCHANGED store
          /\ Send(p, npc)
    /\ Log(p, Entry("fetch", 0, 0, "ok", 0))
    /\ UNCHANGED <<remote, seeded, overlap, pi, categoryData, exists, error, crudLog>>

\* mutant: the failure is recorded but the loops still run, on the document
FetchFailContinues(p) ==
    /\ Arrive(p)
    /\ \E kind \in {"fetch", "body"} : error' = [error EXCEPT ![p] = kind]
    /\ categories' = [categories EXCEPT ![p] = remote]
    /\ ci' = [ci EXCEPT ![p] = 1]
    /\ LET npc == IF Len(remote) = 0 THEN "done" ELSE "upsert"
       IN /\ pc' = [pc EXCEPT ![p] = npc]
          /\ UNCHANGED store
          /\ Send(p, npc)
    /\ Log(p, Entry("fetch", 0, 0, "fail", 0))
    /\ UNCHANGED <<remote, seeded, overlap, pi, categoryData, exists, crudLog>>

\* axios.get rejects (network error, non-2xx: "fetch"), or the body has no
\* iterable products field ("body")
FetchFail(p) ==
    /\ Arrive(p)
    /\ \E kind \in {"fetch", "body"} : Catch(p, kind)
    /\ Log(p, Entry("fetch", 0, 0, "fail", 0))
    /\ UNCHANGED <<remote, seeded, overlap, crudLog>>

\* prisma.category.upsert for block ci, then the head of the inner loop
UpsertOk(p) ==
    /\ pc[p] = "upsert"
    /\ LET d == categories[p]
           b == d[ci[p]]
           npc == IF Len(b.products) > 0 THEN "check"
                  ELSE IF ci[p] < Len(d) THEN "upsert" ELSE "done"
       IN /\ category' = Upsert(category, b)
          /\ categoryData' = [categoryData EXCEPT ![p] = UpsertResult(category, b)]
          /\ pi' = [pi EXCEPT ![p] = 1]
          /\ ci' = [ci EXCEPT ![p] = IF Len(b.products) > 0 THEN ci[p] ELSE ci[p] + 1]
          /\ pc' = [pc EXCEPT ![p] = npc]
          /\ UNCHANGED <<product, nextId>>
          /\ Send(p, npc)
    /\ Log(p, Entry("upsert", ci[p], 0, "ok", 0))
    /\ UNCHANGED <<remote, seeded, overlap, categories, exists, error, alone, crudLog>>

\* a store statement of the call fails (connection failure)
StoreFail(p) ==
    /\ pc[p] \in {"upsert", "check", "create"}
    /\ pc[p] = "create" => ~CreateThrows(categories[p][ci[p]].products[pi[p]])
    /\ Catch(p, "store")
    /\ Log(p, Entry(pc[p], ci[p], IF pc[p] = "upsert" THEN 0 ELSE pi[p], "fail", 0))
    /\ UNCHANGED <<remote, seeded, overlap, alone, crudLog>>

\* mutant: the create follows the check whatever it found
CheckNoGate(p) ==
    /\ pc[p] = "check"
    /\ LET d == categories[p]
           i == ci[p]
           j == pi[p]
           e == productExists(product, d[i].products[j].title, categoryData[p].id)
       IN /\ exists' = [exists EXCEPT ![p] = e]
          /\ pc' = [pc EXCEPT ![p] = "create"]
          /\ UNCHANGED <<ci, pi>>
          /\ UNCHANGED store
          /\ UNCHANGED <<res, snap>>
          /\ Log(p, Entry("check", i, j, IF e THEN "found" ELSE "absent", 0))
    /\ UNCHANGED <<remote, seeded, overlap, categories, categoryData, error, alone, crudLog>>

\* productExists(product.title, categoryData.id), then the branch on it
Check(p) ==
    /\ pc[p] = "check"
    /\ LET d == categories[p]
           i == ci[p]
           j == pi[p]
           e == productExists(product, d[i].products[j].title, categoryData[p].id)
           npc == IF ~e THEN "create" ELSE NextPc(d, i, j)
       IN /\ exists' = [exists EXCEPT ![p] = e]
          /\ pc' = [pc EXCEPT ![p] = npc]
          /\ ci' = [ci EXCEPT ![p] = IF ~e THEN i ELSE NextCi(d, i, j)]
          /\ pi' = [pi EXCEPT ![p] = IF ~e THEN j ELSE NextPi(d, i, j)]
          /\ UNCHANGED store
          /\ Send(p, npc)
          /\ Log(p, Entry("check", i, j, IF e THEN "found" ELSE "absent", 0))
    /\ UNCHANGED <<remote, seeded, overlap, categories, categoryData, error, alone, crudLog>>

\* mutant: an insert that is skipped when the pair is in the table by then
CreateGuarded(p) ==
    /\ pc[p] = "create"
    /\ LET d == categories[p]
           i == ci[p]
           j == pi[p]
           up == d[i].products[j]
           npc == NextPc(d, i, j)
           dup == productExists(product, up.title, categoryData[p].id)
       IN /\ ~CreateThrows(up)
          /\ product' = IF dup THEN product
                        ELSE product \cup {IngestRow(nextId, up, categoryData[p])}
          /\ nextId' = IF dup THEN nextId ELSE nextId + 1
          /\ pc' = [pc EXCEPT ![p] = npc]
          /\ ci' = [ci EXCEPT ![p] = NextCi(d, i, j)]
          /\ pi' = [pi EXCEPT ![p] = NextPi(d, i, j)]
          /\ UNCHANGED category
          /\ Send(p, npc)
          /\ Log(p, Entry("create", i, j, "ok", IF dup THEN 0 ELSE nextId))
    /\ UNCHANGED <<remote, seeded, overlap, categories, categoryData, exists, error, alone,
                   crudLog>>

\* prisma.product.create for the product at (ci, pi)
Create(p) ==
    /\ pc[p] = "create"
    /\ LET d == categories[p]
           i == ci[p]
           j == pi[p]
           up == d[i].products[j]
           npc == NextPc(d, i, j)
       IN /\ ~CreateThrows(up)
          /\ product' = product \cup {IngestRow(nextId, up, categoryData[p])}
          /\ nextId' = nextId + 1
          /\ pc' = [pc EXCEPT ![p] = npc]
          /\ ci' = [ci EXCEPT ![p] = NextCi(d, i, j)]
          /\ pi' = [pi EXCEPT ![p] = NextPi(d, i, j)]
          /\ UNCHANGED category
          /\ Send(p, npc)
          /\ Log(p, Entry("create", i, j, "ok", nextId))
    /\ UNCHANGED <<remote, seeded, overlap, categories, categoryData, exists, error, alone,
                   crudLog>>

\* mutant: a malformed product is skipped and the loop goes on
CreateThrowSkips(p) ==
    /\ pc[p] = "create"
    /\ CreateThrows(categories[p][ci[p]].products[pi[p]])
    /\ LET d == categories[p]
           i == ci[p]
           j == pi[p]
           npc == NextPc(d, i, j)
       IN /\ pc' = [pc EXCEPT ![p] = npc]
          /\ ci' = [ci EXCEPT ![p] = NextCi(d, i, j)]
          /\ pi' = [pi EXCEPT ![p] = NextPi(d, i, j)]
          /\ UNCHANGED store
          /\ Send(p, npc)
          /\ Log(p, Entry("create", i, j, "throw", 0))
    /\ UNCHANGED <<remote, seeded, overlap, categories, categoryData, exists, error, alone,
                   crudLog>>

\* a malformed product record: the create arguments cannot be built
CreateThrow(p) ==
    /\ pc[p] = "create"
    /\ CreateThrows(categories[p][ci[p]].products[pi[p]])
    /\ Catch(p, "malformed")
    /\ Log(p, Entry("create", ci[p], pi[p], "throw", 0))
    /\ UNCHANGED <<remote, seeded, overlap, alone, crudLog>>

\* ---- the CRUD writer ----

PostTitles == Titles
PostBody(t, c) ==
    [title |-> t, slug |-> "manual", lang |-> "id", auth_id |-> 5, status |-> "draft",
     type |-> "bundle", count |-> 1, created_at |-> "2024-01-02T00:00:00Z",
     updated_at |-> "2024-01-02T00:00:00Z", category_id |-> c, price |-> 10,
     preview |-> "manual", stock |-> 1]

\* the data of prisma.product.create in POST /products
PostRow(id, body) ==
    [id |-> id, title |-> body.title, slug |-> body.slug, lang |-> body.lang,
     auth_id |-> body.auth_id, status |-> body.status, type |-> body.type,
     count |-> body.count, created_at |-> ParseDate(body.created_at),
     updated_at |-> ParseDate(body.updated_at), category_id |-> body.category_id,
     price |-> body.price, preview |-> body.preview, stock |-> body.stock]

PutBodies == {[title |-> "red shirt"], [category_id |-> 7, price |-> 30]}

\* prisma.product.update: fields absent from the body keep their value
ApplyBody(r, body) ==
    [f \in DOMAIN r |-> IF f \in DOMAIN body THEN body[f] ELSE r[f]]

Disturb == alone' = [q \in Calls |-> alone[q] /\ ~Active(q)]

\* an entry of the CRUD log: the endpoint, the product id it names or
\* creates, the pair of a POST body, and the status of the response
Crud(op, id, title, categoryId, status) ==
    [op |-> op, id |-> id, title |-> title, category_id |-> categoryId, status |-> status]

\* mutant: a direct create that runs the Identity Resolver first
PostProductGated ==
    /\ Len(crudLog) < MaxCrud
    /\ \E t \in PostTitles, c \in CatIds :
          LET body == PostBody(t, c)
          IN IF /\ ForeignKeyOk(category, body.category_id)
                /\ ~productExists(product, body.title, body.category_id)
             THEN /\ product' = product \cup {PostRow(nextId, body)}
                  /\ nextId' = nextId + 1
                  /\ crudLog' = Append(crudLog, Crud("POST", nextId, t, c, 200))
             ELSE /\ UNCHANGED <<product, nextId>>
                  /\ crudLog' = Append(crudLog, Crud("POST", 0, t, c, 500))
    /\ Disturb
    /\ UNCHANGED <<remote, seeded, overlap, category, pc, local, snap>>

\* POST /products
PostProduct ==
    /\ Len(crudLog) < MaxCrud
    /\ \E t \in PostTitles, c \in CatIds :
          LET body == PostBody(t, c)
          IN IF ForeignKeyOk(category, body.category_id)
             THEN /\ product' = product \cup {PostRow(nextId, body)}
                  /\ nextId' = nextId + 1
                  /\ crudLog' = Append(crudLog, Crud("POST", nextId, t, c, 200))
             ELSE /\ UNCHANGED <<product, nextId>>
                  /\ crudLog' = Append(crudLog, Crud("POST", 0, t, c, 500))
    /\ Disturb
    /\ UNCHANGED <<remote, seeded, overlap, category, pc, local, snap>>

\* PUT /products/:id
PutProduct ==
    /\ Len(crudLog) < MaxCrud
    /\ \E id \in 1..nextId, body \in PutBodies :
          IF /\ \E r \in product : r.id = id
             /\ "category_id" \in DOMAIN body => ForeignKeyOk(category, body.category_id)
          THEN /\ product' = {IF r.id = id THEN ApplyBody(r, body) ELSE r : r \in product}
               /\ crudLog' = Append(crudLog, Crud("PUT", id, "", 0, 200))
          ELSE /\ UNCHANGED product
               /\ crudLog' = Append(crudLog, Crud("PUT", id, "", 0, 500))
    /\ Disturb
    /\ UNCHANGED <<remote, seeded, overlap, category, nextId, pc, local, snap>>

\* mutant: a delete that also drops the Category row its product left empty
DeleteProductCascade ==
    /\ Len(crudLog) < MaxCrud
    /\ \E id \in 1..nextId :
          IF \E r \in product : r.id = id
          THEN /\ product' = {r \in product : r.id # id}
               /\ category' = {c \in category : \E r \in product' : r.category_id = c.id}
               /\ crudLog' = Append(crudLog, Crud("DELETE", id, "", 0, 200))
          ELSE /\ UNCHANGED <<product, category>>
               /\ crudLog' = Append(crudLog, Crud("DELETE", id, "", 0, 500))
    /\ Disturb
    /\ UNCHANGED <<remote, seeded, overlap, nextId, pc, local, snap>>

\* DELETE /products/:id
DeleteProduct ==
    /\ Len(crudLog) < MaxCrud
    /\ \E id \in 1..nextId :
          IF \E r \in product : r.id = id
          THEN /\ product' = {r \in product : r.id # id}
               /\ crudLog' = Append(crudLog, Crud("DELETE", id, "", 0, 200))
          ELSE /\ UNCHANGED product
               /\ crudLog' = Append(crudLog, Crud("DELETE", id, "", 0, 500))
    /\ Disturb
    /\ UNCHANGED <<remote, seeded, overlap, category, nextId, pc, local, snap>>

\* ---- listing and export ----

\* the query strings of GET /products: a number in decimal, or "" for a
\* parameter that is absent or empty (both are falsy in the handler's tests)
CategoryIdQueries == {"", "7"}
LimitQueries == {"", "1"}
NaN == -1
\* parseInt(s)
ParseInt(s) ==
    CASE s = "1" -> 1
      [] s = "7" -> 7
      [] OTHER -> NaN

\* include: {category: true}: the row with the Category row it references
WithCategory(r, cats) ==
    [product |-> r, category |-> {c \in cats : c.id = r.category_id}]

\* prisma.product.findMany({where, take, include}): the results the store may
\* return (no orderBy: any take rows of the matching ones)
FindMany(rows, cats, categoryId, limit) ==
    LET match == IF categoryId = "" THEN rows
                 ELSE {r \in rows : r.category_id = ParseInt(categoryId)}
        taken == IF limit = "" THEN {match}
                 ELSE {x \in SUBSET match :
                         Cardinality(x) = IF ParseInt(limit) < Cardinality(match)
                                          THEN ParseInt(limit) ELSE Cardinality(match)}
    IN {{WithCategory(r, cats) : r \in x} : x \in taken}

\* an entry of the CRUD log for a read endpoint: the number of rows it returned
Served(op, rows, status) ==
    [op |-> op, id |-> 0, title |-> "", category_id |-> 0, status |-> status,
     rows |-> Cardinality(rows)]

\* GET /products
ListProducts ==
    /\ Len(crudLog) < MaxCrud
    /\ \E categoryId \in CategoryIdQueries, limit \in LimitQueries :
          \E products \in FindMany(product, category, categoryId, limit) :
              crudLog' = Append(crudLog, Served("LIST", products, 200))
    /\ Disturb
    /\ UNCHANGED <<remote, seeded, overlap, store, pc, local, snap>>

\* GET /export/xml
ExportXml ==
    /\ Len(crudLog) < MaxCrud
    /\ \E products \in FindMany(product, category, "", "") :
          crudLog' = Append(crudLog, Served("XML", products, 200))
    /\ Disturb
    /\ UNCHANGED <<remote, seeded, overlap, store, pc, local, snap>>

\* GET /export/excel: one worksheet row per product, with product.category.name
ExportExcel ==
    /\ Len(crudLog) < MaxCrud
    /\ \E products \in FindMany(product, category, "", "") :
          crudLog' = Append(crudLog,
                            Served("EXCEL", products,
                                   IF \A x \in products : x.category # {} THEN 200 ELSE 500))
    /\ Disturb
    /\ UNCHANGED <<remote, seeded, overlap, store, pc, local, snap>>

\* ---- the specification ----

InitWith(d, s, o) ==
    /\ remote = d
    /\ seeded = s
    /\ overlap = o
    /\ category = IF seeded THEN SeedCategory ELSE {}
    /\ product = IF seeded THEN SeedProduct ELSE {}
    /\ nextId = IF seeded THEN 2 ELSE 1
    /\ pc = [p \in Calls |-> "idle"]
    /\ categories = [p \in Calls |-> <<>>]
    /\ ci = [p \in Calls |-> 1]
    /\ pi = [p \in Calls |-> 1]
    /\ categoryData = [p \in Calls |-> Undefined]
    /\ exists = [p \in Calls |-> FALSE]
    /\ error = [p \in Calls |-> "none"]
    /\ res = [p \in Calls |-> <<>>]
    /\ trace = [p \in Calls |-> <<>>]
    /\ alone = [p \in Calls |-> TRUE]
    /\ snap = [p \in Calls |-> {}]
    /\ crudLog = <<>>

\* an empty store, any remote document, one request at a time
Init == \E d \in Docs : InitWith(d, FALSE, FALSE)

Ingest ==
    \/ \E p \in Calls : FetchOk(p)
    \/ \E p \in Calls : FetchFail(p)
    \/ \E p \in Calls : UpsertOk(p)
    \/ \E p \in Calls : Check(p)
    \/ \E p \in Calls : Create(p)
    \/ \E p \in Calls : CreateThrow(p)
    \/ \E p \in Calls : StoreFail(p)

\* the steps of one call
IngestBy(p) ==
    \/ FetchOk(p)
    \/ FetchFail(p)
    \/ UpsertOk(p)
    \/ Check(p)
    \/ Create(p)
    \/ CreateThrow(p)
    \/ StoreFail(p)

\* the ingestion pipeline alone
Next == Ingest

\* the pipeline from an empty store, on any document, one call at a time

Spec == Init /\ [][Next]_vars

\* every statement a call waits for returns: a started or startable call
\* keeps taking its steps
FairSpec == Init /\ [][Next]_vars /\ \A p \in Calls : WF_vars(IngestBy(p))

\* overlapping ingestion calls, on documents of at most MaxProdsConc products
InitConc == \E d \in DocsOf(MaxBlocks, MaxProdsConc) : InitWith(d, FALSE, TRUE)

SpecConc == InitConc /\ [][Next]_vars

\* overlapping calls together with the CRUD writer, over an empty or a seeded
\* store
InitAll ==
    \E d \in DocsOf(MaxBlocks, MaxProdsConc), s \in BOOLEAN : InitWith(d, s, TRUE)

\* the CRUD writer with one ingestion call at a time, on the documents of a
\* single category block, over an empty or a seeded store
InitCrud ==
    \E d \in {x \in DocsOf(MaxBlocks, MaxProdsConc) : Len(x) <= 1}, s \in BOOLEAN :
        InitWith(d, s, FALSE)

NextCrud ==
    \/ Ingest
    \/ PostProduct
    \/ PutProduct
    \/ DeleteProduct
    \/ ListProducts
    \/ ExportXml
    \/ ExportExcel

SpecCrud == InitCrud /\ [][NextCrud]_vars

SpecAll == InitAll /\ [][NextCrud]_vars

\* ---- what the claims speak about ----

Pairs(rows) == {<<r.title, r.category_id>> : r \in rows}
Done(p) == pc[p] = "done"
\* the call got the document and no store statement of it failed
Ingested(p) == Done(p) /\ error[p] \in {"none", "malformed"}
\* call 1 ran to its response before call 2 started
Sequential == Done(1) /\ Done(2) /\ alone[1] /\ alone[2]
DocIds(d) == {d[i].id : i \in 1..Len(d)}
\* the last block of d with the given category id
LastBlock(d, id) ==
    d[CHOOSE i \in 1..Len(d) : d[i].id = id /\ \A k \in (i + 1)..Len(d) : d[k].id # id]
HasDuplicate(rows) ==
    \E r1, r2 \in rows : r1.id # r2.id /\ r1.title = r2.title
                            /\ r1.category_id = r2.category_id

\* C1: when the same remote document is ingested twice, one call after the
\* other with nothing in between, the second call inserts no Product row
\* whose (title, category_id) the first left in the store; and when no store
\* statement failed in either call the Product table after the second call is
\* the table the first call left (same number of rows).
C1_NoDuplicateOnReingest ==
    (Sequential /\ categories[1] = categories[2] /\ crudLog = <<>>) =>
        /\ \A r \in product \ snap[1] :
              <<r.title, r.category_id>> \notin Pairs(snap[1])
        /\ (Ingested(1) /\ Ingested(2)) =>
              /\ product = snap[1]
              /\ Cardinality(product) = Cardinality(snap[1])

\* C1 witness: two sequential successful ingestions of a document with
\* products, the first of which inserted rows.
C1_Witness ==
    /\ Sequential
    /\ res[1] = <<200>> /\ res[2] = <<200>>
    /\ snap[1] # {}
    /\ \E k \in 1..Len(trace[2]) : trace[2][k].op = "check" /\ trace[2][k].r = "found"

\* C2: after two sequential successful ingestions of the same document the
\* Category table holds exactly one row per category id of the document, with
\* the name and user_id of the last block of the document with that id.
C2_IdempotentCategoryUpsert ==
    (Sequential /\ res[1] = <<200>> /\ res[2] = <<200>>) =>
        \A id \in DocIds(remote) :
            LET b == LastBlock(remote, id)
            IN {c \in category : c.id = id}
                  = {[id |-> id, name |-> b.name, user_id |-> b.user_id]}

\* C2 witness: the document ingested twice repeats a category id under two
\* names.
C2_Witness ==
    /\ Sequential
    /\ res[1] = <<200>> /\ res[2] = <<200>>
    /\ \E i, j \in 1..Len(remote) :
          i < j /\ remote[i].id = remote[j].id /\ remote[i].name # remote[j].name

Last(q) == q[Len(q)]
\* the entries of call p's trace with the given statement and outcome
Entries(p, op, r) ==
    {k \in 1..Len(trace[p]) : trace[p][k].op = op /\ trace[p][k].r = r}
\* call p took a step
Stepped(p) == trace'[p] # trace[p]
FirstId == IF seeded THEN 2 ELSE 1

\* C3: the insert of a call that found no row is not conditional on the table
\* any more: the create it then issues adds a row with the checked title and
\* category id whatever other calls inserted since the check.
C3_CheckThenInsertNotAtomic ==
    [][\A p \in Calls :
          (pc[p] = "create" /\ Stepped(p) /\ error'[p] = "none") =>
              LET up == categories[p][ci[p]].products[pi[p]]
              IN \E r \in product' \ product :
                    /\ r.id = nextId
                    /\ r.title = up.title
                    /\ r.category_id = categoryData[p].id]_vars

\* C3 witness: both calls inserted a row for the same (title, category_id),
\* each having checked before the other inserted.
C3_Witness ==
    \E k1 \in Entries(1, "create", "ok"), k2 \in Entries(2, "create", "ok") :
        \E r1, r2 \in product :
            /\ r1.id = trace[1][k1].id
            /\ r2.id = trace[2][k2].id
            /\ r1.title = r2.title
            /\ r1.category_id = r2.category_id

\* C4: a call about to insert a product, and every insert it made, uses the
\* id of the enclosing block, whose Category row the call upserted before and
\* which is in the store.
C4_CategoryBeforeProduct ==
    \A p \in Calls :
        /\ pc[p] = "create" =>
              /\ categoryData[p].id = categories[p][ci[p]].id
              /\ \E c \in category : c.id = categoryData[p].id
              /\ Entries(p, "upsert", "ok") # {}
              /\ Last(trace[p]).i = ci[p]
        /\ \A k \in 1..Len(trace[p]) :
              trace[p][k].op = "create" =>
                  /\ \E m \in 1..(k - 1) :
                        /\ trace[p][m].op = "upsert" /\ trace[p][m].r = "ok"
                        /\ trace[p][m].i = trace[p][k].i
                  /\ \E c \in category : c.id = categories[p][trace[p][k].i].id

\* C4 witness: a call is about to insert while the other call is active and a
\* CRUD request has been served.
C4_Witness ==
    \E p, q \in Calls :
        /\ p # q
        /\ pc[p] = "create"
        /\ Active(q)
        /\ crudLog # <<>>

\* C5: a call whose fetch failed has answered 500 once, issued one fetch and
\* no store statement, and holds no document.
C5_FetchFailurePropagation ==
    \A p \in Calls :
        error[p] \in {"fetch", "body"} =>
            /\ pc[p] = "done"
            /\ res[p] = <<500>>
            /\ trace[p] = <<Entry("fetch", 0, 0, "fail", 0)>>
            /\ categories[p] = <<>>
            /\ (p = 1 /\ pc[2] = "idle") => (category = {} /\ product = {})

\* C5 witness: the fetch of call 1 failed on a document with blocks.
C5_Witness ==
    /\ error[1] \in {"fetch", "body"}
    /\ Len(remote) > 0
    /\ Done(1)

\* the position of entry k of call p
Pos(p, k) == <<trace[p][k].i, trace[p][k].j>>
LexLeq(a, b) == a[1] < b[1] \/ (a[1] = b[1] /\ a[2] <= b[2])

\* C6: a call that failed on a store statement or a malformed product has
\* answered 500; the failing statement is the last it issued; what it upserted
\* and inserted before is in the store; and when it ran alone on the empty
\* store, the store holds exactly those rows.
C6_NoRollbackOnPartialFailure ==
    \A p \in Calls :
        error[p] \in {"store", "malformed"} =>
            LET n == Len(trace[p])
            IN /\ pc[p] = "done"
               /\ res[p] = <<500>>
               /\ trace[p][n].r \in {"fail", "throw"}
               /\ \A k \in 1..(n - 1) :
                     /\ trace[p][k].r \notin {"fail", "throw"}
                     /\ LexLeq(Pos(p, k), Pos(p, n))
               /\ \A k \in Entries(p, "create", "ok") :
                     \E r \in product : r.id = trace[p][k].id
               /\ \A k \in Entries(p, "upsert", "ok") :
                     \E c \in category : c.id = categories[p][trace[p][k].i].id
               /\ (p = 1 /\ pc[2] = "idle") =>
                     /\ {c.id : c \in category}
                           = {categories[p][trace[p][k].i].id : k \in Entries(p, "upsert", "ok")}
                     /\ {r.id : r \in product}
                           = {trace[p][k].id : k \in Entries(p, "create", "ok")}

\* C6 witness: a call failed after it had inserted a product, with a block of
\* the document still ahead.
C6_Witness ==
    \E p \in Calls :
        /\ error[p] \in {"store", "malformed"}
        /\ Entries(p, "create", "ok") # {}
        /\ Last(trace[p]).i < Len(categories[p])

\* the fetch succeeded and every block and product was processed without error
Processed(p) ==
    /\ error[p] = "none"
    /\ trace[p] # <<>> /\ trace[p][1] = Entry("fetch", 0, 0, "ok", 0)
    /\ categories[p] = remote
    /\ \A i \in 1..Len(remote) :
          /\ \E k \in Entries(p, "upsert", "ok") : trace[p][k].i = i
          /\ \A j \in 1..Len(remote[i].products) :
                \/ \E k \in Entries(p, "check", "found") : Pos(p, k) = <<i, j>>
                \/ /\ \E k \in Entries(p, "check", "absent") : Pos(p, k) = <<i, j>>
                   /\ \E k \in Entries(p, "create", "ok") : Pos(p, k) = <<i, j>>

C7_Safety ==
    \A p \in Calls :
        /\ Len(res[p]) <= 1
        /\ Len(res[p]) = 1 <=> pc[p] = "done"
        /\ pc[p] = "done" =>
              /\ res[p] = <<200>> <=> Processed(p)
              /\ res[p] = <<500>> <=> ~Processed(p)
              /\ res[p] = <<500>> <=> error[p] # "none"

\* C7: a call never has more than one response, a finished call has exactly
\* one, 200 if and only if the fetch succeeded and every block and product was
\* processed without error and 500 otherwise; and, the statements it waits for
\* returning, from some point on no call is in flight: each has finished.
C7_SingleOutcome ==
    /\ []C7_Safety
    /\ <>[](\A p \in Calls : ~Active(p))

\* C7 witness: on a document with products, one call answered 500 after a
\* store failure and the other 200.
C7_Witness ==
    /\ res[1] = <<500>> /\ error[1] = "store"
    /\ res[2] = <<200>>
    /\ Entries(2, "create", "ok") # {}

\* C8: a step of an ingestion call removes no Category id and changes no
\* Category row but the one of the block it upserts, removes and changes no
\* Product row, and when its check finds the pair it leaves the Product table
\* as it is and raises no error.
C8_AdditiveOverwriteOnly ==
    [][crudLog' = crudLog =>
          /\ \A r \in product : r \in product'
          /\ \A c \in category : \E c2 \in category' : c2.id = c.id
          /\ \A c \in category :
                c \notin category' =>
                    \E p \in Calls : pc[p] = "upsert" /\ Stepped(p)
                                        /\ categories[p][ci[p]].id = c.id
          /\ \A p \in Calls :
                (pc[p] = "check" /\ Stepped(p) /\ Last(trace'[p]).r = "found") =>
                    /\ product' = product
                    /\ error'[p] = "none"]_vars

\* C8 witness: a call that answered 200 skipped a product whose stored row
\* differs from the incoming one, and the store holds a Category row and a
\* Product row that are not in the document.
C8_Witness ==
    \E p \in Calls :
        /\ res[p] = <<200>>
        /\ \E k \in Entries(p, "check", "found") :
              \E r \in product :
                  /\ r.title = remote[trace[p][k].i].products[trace[p][k].j].title
                  /\ r.category_id = remote[trace[p][k].i].id
                  /\ r.slug = "manual"
        /\ \E c \in category : c.id \notin DocIds(remote)
        /\ \E r \in product : r.category_id \notin DocIds(remote)

\* C9 as stated: every Product row the program inserted was inserted right
\* after an existence check for its pair that found no row.
C9_EveryInsertGated ==
    \A r \in product :
        r.id >= FirstId =>
            \E p \in Calls : \E k \in Entries(p, "create", "ok") :
                /\ trace[p][k].id = r.id
                /\ k > 1
                /\ trace[p][k - 1] = Entry("check", trace[p][k].i, trace[p][k].j, "absent", 0)

\* C9 amended: every insert attempt of an ingestion call is the call's next
\* statement after an existence check at the same product that found no row,
\* and every Product row inserted was inserted so or by POST /products.
C9_IngestInsertGated ==
    /\ \A p \in Calls :
          /\ pc[p] = "create" =>
                /\ exists[p] = FALSE
                /\ Last(trace[p]) = Entry("check", ci[p], pi[p], "absent", 0)
          /\ \A k \in 1..Len(trace[p]) :
                trace[p][k].op = "create" =>
                    /\ k > 1
                    /\ trace[p][k - 1]
                          = Entry("check", trace[p][k].i, trace[p][k].j, "absent", 0)
    /\ \A r \in product :
          r.id >= FirstId =>
              \/ \E p \in Calls : \E k \in Entries(p, "create", "ok") : trace[p][k].id = r.id
              \/ \E k \in 1..Len(crudLog) :
                    /\ crudLog[k].op = "POST" /\ crudLog[k].status = 200
                    /\ crudLog[k].id = r.id

\* C9 witness: an ingestion call inserted a row and POST /products another.
C9_Witness ==
    /\ \E p \in Calls : Entries(p, "create", "ok") # {}
    /\ \E k \in 1..Len(crudLog) : crudLog[k].op = "POST" /\ crudLog[k].status = 200

\* C10: POST /products answers 200 whenever the body's category exists,
\* whether or not a row with the body's pair is stored, and a POST that
\* answers 200 adds exactly one row with the body's pair; one that answers
\* 500 adds none.
C10_DirectCreateBypassesResolver ==
    [][(Len(crudLog') = Len(crudLog) + 1 /\ Last(crudLog').op = "POST") =>
          LET e == Last(crudLog')
          IN /\ ForeignKeyOk(category, e.category_id) => e.status = 200
             /\ e.status = 200 =>
                   /\ Cardinality(product') = Cardinality(product) + 1
                   /\ \E r \in product' \ product :
                         /\ r.id = e.id
                         /\ r.title = e.title
                         /\ r.category_id = e.category_id
             /\ e.status = 500 => product' = product]_vars

\* C10 witness: with no ingestion call running, a POST of a pair that was
\* stored answered 200 and the store holds two rows with that pair.
C10_Witness ==
    /\ \A p \in Calls : ~Active(p)
    /\ crudLog # <<>>
    /\ LET e == Last(crudLog)
       IN /\ e.op = "POST" /\ e.status = 200
          /\ \E r1, r2 \in product :
                /\ r1.id = e.id /\ r2.id # e.id
                /\ r1.title = r2.title /\ r2.title = e.title
                /\ r1.category_id = r2.category_id

\* a CRUD, list or export request was served in the step
Served1 == Len(crudLog') = Len(crudLog) + 1

\* C11: a step that serves a create, update, delete, list or export request
\* leaves the Category table as it is, and a Category row appears or changes
\* only in the upsert step of an ingestion call; a stored Product row changes
\* or disappears only in a PUT or DELETE that names its id, never in a step of
\* ingestion, a POST, a listing or an export.
C11_EntityLifecycle ==
    [][/\ Served1 => category' = category
       /\ category' # category => \E p \in Calls : pc[p] = "upsert" /\ Stepped(p)
       /\ \A r \in product :
             r \notin product' =>
                 /\ Served1
                 /\ Last(crudLog').op \in {"PUT", "DELETE"}
                 /\ Last(crudLog').id = r.id
       /\ (Served1 /\ Last(crudLog').op \in {"LIST", "XML", "EXCEL"}) =>
             product' = product /\ nextId' = nextId]_vars

\* C11 witness: after an ingestion call upserted a category and inserted a
\* product, a DELETE removed a Product row and the Category rows are all
\* still stored.
C11_Witness ==
    /\ \E p \in Calls : Done(p) /\ Entries(p, "create", "ok") # {}
    /\ crudLog # <<>>
    /\ Last(crudLog).op = "DELETE" /\ Last(crudLog).status = 200
    /\ \A r \in product : r.id # Last(crudLog).id
    /\ DocIds(remote) \subseteq {c.id : c \in category}
    /\ product = {}

\* C12: every Product row an ingestion call inserted has the price of the
\* upstream product's price.price, the preview of preview.content, the stock
\* of stock.stock, the id of the enclosing category block as category_id, and
\* the upstream title, slug, lang, auth_id, status, type and count unchanged;
\* from an empty store with ingestion only, every stored row is such a row.
C12_NestedFieldExtraction ==
    /\ \A p \in Calls : \A k \in Entries(p, "create", "ok") :
          LET b == categories[p][trace[p][k].i]
              up == b.products[trace[p][k].j]
          IN \E r \in product :
                /\ r.id = trace[p][k].id
                /\ r.price = up.price.price
                /\ r.preview = up.preview.content
                /\ r.stock = up.stock.stock
                /\ r.category_id = b.id
                /\ r.title = up.title /\ r.slug = up.slug /\ r.lang = up.lang
                /\ r.auth_id = up.auth_id /\ r.status = up.status
                /\ r.type = up.type /\ r.count = up.count
    /\ \A r \in product :
          \E p \in Calls : \E k \in Entries(p, "create", "ok") : trace[p][k].id = r.id

\* C12 witness: a call inserted the product of the second block of a document
\* whose blocks have different category ids.
C12_Witness ==
    \E p \in Calls : \E k \in Entries(p, "create", "ok") :
        /\ trace[p][k].i = 2
        /\ remote[1].id # remote[2].id
        /\ \E r \in product : r.id = trace[p][k].id /\ r.category_id = remote[2].id

\* the stored rows with exactly the given title and category id
Matching(rows, title, categoryId) ==
    {r \in rows : r.title = title /\ r.category_id = categoryId}

\* C13: the existence check of a call answers true if and only if the Product
\* table holds at least one row with exactly the checked title and the
\* checked category id, and it changes no row of either table.
C13_ExactMatchResolver ==
    [][\A p \in Calls :
          (pc[p] = "check" /\ Stepped(p) /\ error'[p] = "none") =>
              LET t == categories[p][ci[p]].products[pi[p]].title
                  c == categoryData[p].id
              IN /\ exists'[p] <=> Cardinality(Matching(product, t, c)) >= 1
                 /\ Last(trace'[p]).r = (IF exists'[p] THEN "found" ELSE "absent")
                 /\ product' = product
                 /\ category' = category
                 /\ nextId' = nextId]_vars

\* C13 witness: a check answered false, and the call inserted the product,
\* while the category held a row whose title differs from the checked one only
\* in case.
C13_Witness ==
    \E p \in Calls : \E k \in Entries(p, "check", "absent") :
        LET b == categories[p][trace[p][k].i]
            t == b.products[trace[p][k].j].title
        IN \E k2 \in Entries(p, "create", "ok") : \E r \in product :
              /\ Pos(p, k2) = Pos(p, k)
              /\ r.category_id = b.id
              /\ r.title # t /\ Lower(r.title) = Lower(t)
              /\ r.id < trace[p][k2].id

\* the entry of a product the loop is through with: found, or inserted
Handled(e) ==
    \/ e.op = "check" /\ e.r = "found"
    \/ e.op = "create" /\ e.r = "ok"

\* statement op at position (i, j) is what the loops of call p issue right
\* after the statement of trace entry prev
Follows(p, prev, op, i, j) ==
    LET d == categories[p]
        closes == \/ prev.op = "upsert" /\ prev.r = "ok" /\ Len(d[prev.i].products) = 0
                  \/ Handled(prev) /\ prev.j = Len(d[prev.i].products)
    IN CASE op = "upsert" ->
              /\ j = 0
              /\ \/ prev.op = "fetch" /\ prev.r = "ok" /\ i = 1
                 \/ closes /\ i = prev.i + 1
         [] op = "check" ->
              \/ prev = Entry("upsert", i, 0, "ok", 0) /\ j = 1
              \/ Handled(prev) /\ prev.i = i /\ j = prev.j + 1
         [] op = "create" -> prev = Entry("check", i, j, "absent", 0)
         [] OTHER -> FALSE

\* C14: a call issues one fetch, first, and then its store statements one at
\* a time in document order: each statement it issued, and the one it is
\* waiting for, is the successor of the statement before it (the upsert of
\* block i after the last statement of block i-1 and before the first check of
\* block i, the products of a block in order, a product's insert right after
\* its check), and nothing follows a failed statement.
C14_StrictSequencing ==
    \A p \in Calls :
        LET n == Len(trace[p])
        IN /\ \A k \in 1..n : trace[p][k].op = "fetch" <=> k = 1
           /\ \A k \in 2..n :
                 Follows(p, trace[p][k - 1], trace[p][k].op, trace[p][k].i, trace[p][k].j)
           /\ Active(p) =>
                 /\ n >= 1
                 /\ Follows(p, trace[p][n], pc[p], ci[p], IF pc[p] = "upsert" THEN 0 ELSE pi[p])
           /\ \A k \in 1..n : trace[p][k].i <= Len(categories[p])

\* C14 witness: a call answered 200 on a document of two blocks with a product
\* each, having inserted both.
C14_Witness ==
    \E p \in Calls :
        /\ res[p] = <<200>>
        /\ Len(remote) = 2
        /\ Len(remote[1].products) = 1 /\ Len(remote[2].products) = 1
        /\ Cardinality(Entries(p, "create", "ok")) = 2
        /\ Len(trace[p]) = 7

\* C15: the upsert of a block is issued without a read of the Category table
\* before it (it follows the fetch or the last statement of the block before);
\* where no row has the block's id it adds the row (id, name, user_id) of the
\* block, otherwise it overwrites the name and user_id of that row, keeping
\* the ids and the number of Category rows; it touches no other row and no
\* Product row; and a call that answered 200 upserted every block, also when
\* it inserted no product.
C15_UnconditionalUpsert ==
    [][\A p \in Calls :
          /\ (pc[p] = "upsert" /\ Stepped(p) /\ error'[p] = "none") =>
                LET b == categories[p][ci[p]]
                    row == [id |-> b.id, name |-> b.name, user_id |-> b.user_id]
                IN /\ Last(trace[p]).i = ci[p] - 1
                   /\ Last(trace'[p]) = Entry("upsert", ci[p], 0, "ok", 0)
                   /\ IF \E c \in category : c.id = b.id
                      THEN /\ Cardinality(category') = Cardinality(category)
                           /\ {c.id : c \in category'} = {c.id : c \in category}
                      ELSE /\ Cardinality(category') = Cardinality(category) + 1
                           /\ category' = category \cup {row}
                   /\ \A c \in category' : c.id = b.id => c = row
                   /\ row \in category'
                   /\ \A c \in category : c.id # b.id => c \in category'
                   /\ product' = product
          /\ res'[p] = <<200>> =>
                \A i \in 1..Len(categories'[p]) :
                    \E k \in 1..Len(trace'[p]) : trace'[p][k] = Entry("upsert", i, 0, "ok", 0)]_vars

\* C15 witness: the second call answered 200 having skipped every product and
\* inserted none, on a document that repeats a category id under two names, so
\* that its upserts overwrote the row both ways.
C15_Witness ==
    /\ res[2] = <<200>>
    /\ Entries(2, "check", "found") # {}
    /\ Entries(2, "create", "ok") = {}
    /\ Cardinality(Entries(2, "upsert", "ok")) = 2
    /\ remote[1].id = remote[2].id /\ remote[1].name # remote[2].name
    /\ Cardinality(category) = 1

\* C16: from an empty store, with ingestion calls only, run one after the
\* other, no two Product rows ever have the same (title, category_id): the
\* rows are as many as their pairs.
C16_NoDuplicatePairSequential ==
    /\ ~HasDuplicate(product)
    /\ Cardinality(Pairs(product)) = Cardinality(product)

\* C16 witness: both calls answered 200 on a document that lists the same
\* title twice under one category id (in one block, or in two blocks that
\* repeat the id), and the store holds one row for it.
C16_Witness ==
    /\ Sequential
    /\ res[1] = <<200>> /\ res[2] = <<200>>
    /\ \/ /\ Len(remote) = 1 /\ Len(remote[1].products) = 2
          /\ remote[1].products[1].title = remote[1].products[2].title
       \/ /\ Len(remote) = 2 /\ remote[1].id = remote[2].id
          /\ Len(remote[1].products) = 1 /\ Len(remote[2].products) = 1
          /\ remote[1].products[1].title = remote[2].products[1].title
    /\ Cardinality(product) = 1

\* the upserts call p applied for the category id
UpsertsOf(p, id) ==
    {k \in Entries(p, "upsert", "ok") : categories[p][trace[p][k].i].id = id}

\* the Category rows written by the last upsert each call applied for the id
LastWritten(id) ==
    UNION {{[id |-> id, name |-> categories[p][trace[p][k].i].name,
             user_id |-> categories[p][trace[p][k].i].user_id] :
               k \in {x \in UpsertsOf(p, id) : \A m \in UpsertsOf(p, id) : m <= x}} :
             p \in Calls}

\* C17: whatever the interleaving of the calls, the Category table never
\* holds two rows with one id, and each row has the name and the user_id that
\* one upsert wrote together: those of the last upsert some call applied for
\* its id, never the name of one upsert with the user_id of another.
C17_CategoryRowsWhole ==
    /\ \A c1, c2 \in category : c1.id = c2.id => c1 = c2
    /\ Cardinality({c.id : c \in category}) = Cardinality(category)
    /\ \A c \in category : c \in LastWritten(c.id)

\* C17 witness: the calls overlapped on a document that repeats a category id
\* under two names and owners; one answered 200, the other failed after its
\* first upsert, which was applied last: the row has the values of the first
\* block.
C17_Witness ==
    /\ Done(1) /\ Done(2)
    /\ ~alone[1] /\ ~alone[2]
    /\ Len(remote) = 2
    /\ remote[1].id = remote[2].id
    /\ remote[1].name # remote[2].name /\ remote[1].user_id # remote[2].user_id
    /\ \E p \in Calls : res[p] = <<200>>
    /\ category = {[id |-> remote[1].id, name |-> remote[1].name,
                    user_id |-> remote[1].user_id]}

\* the (title, category id) pairs occurring in document d
DocPairs(d) ==
    UNION {{<<d[i].products[j].title, d[i].id>> : j \in 1..Len(d[i].products)} :
             i \in 1..Len(d)}

\* C18: in the step in which a call answers 200, no other request having run
\* while it was active, the store holds a Category row for the id of every
\* block of the document and a Product row for every (title, category id)
\* pair of the document.
C18_SuccessMeansStored ==
    [][\A p \in Calls :
          (res[p] = <<>> /\ res'[p] = <<200>> /\ alone'[p]) =>
              /\ \A id \in DocIds(remote) : \E c \in category' : c.id = id
              /\ \A pr \in DocPairs(remote) :
                    Cardinality(Matching(product', pr[1], pr[2])) >= 1]_vars

\* C18 witness: a call answered 200 on a document of two blocks with
\* different ids and a product each, and the store holds both Category rows
\* and a Product row for both pairs.
C18_Witness ==
    \E p \in Calls :
        /\ res[p] = <<200>> /\ alone[p]
        /\ Len(remote) = 2 /\ remote[1].id # remote[2].id
        /\ Cardinality(DocPairs(remote)) = 2
        /\ DocIds(remote) = {c.id : c \in category}
        /\ DocPairs(remote) = Pairs(snap[p])

====
